---- MODULE Spec2Model ----
(***************************************************************************)
(* Model of ClientesSemCompraSigma.py: the inactivity report               *)
(* (get_clientes_sem_compra), the monthly evolution of attended customers  *)
(* (get_evolucao_clientes) and the filter widgets of main() that feed      *)
(* them.  The relational tables the SQL reads are the state the queries    *)
(* are evaluated over; text columns that the SQL converts (valor_liq,      *)
(* vendedor, TO_CHAR of the month) are sequences of one-character strings  *)
(* so that the conversions are computed, not assumed.                      *)
(***************************************************************************)
EXTENDS Integers, Sequences, FiniteSets, TLC

VARIABLES
    vendas,                 \* rows of table vendas (the sales ledger)
    clientes,               \* rows of table clientes
    fornecedores_sel,       \* value of the "Fornecedor" multiselect after line 287
    cidades_sel,            \* value of the "Cidade" multiselect after line 292
    vendedores_sel_report,  \* value of the "Vendedor" multiselect (display names)
    gerado,                 \* TRUE when "Gerar Relatório" was pressed in this run
    df_sem_compra,          \* result of get_clientes_sem_compra (sequence of rows)
    df_evolucao,            \* result of get_evolucao_clientes (sequence of rows)
    pivot_situacao,         \* rows of the table "Distribuição por Situação"
    pivot_vendedor,         \* rows of the table "Distribuição por Vendedor"
    pivot_cidade,           \* rows of the table "Distribuição por Cidade"
    saidas,                 \* the elements the last run of the script put on the page
    consultas,              \* the functions whose query went to the database in the last run
    cache_vendedores,       \* entries of st.cache_data(ttl=3600) of get_vendedores
    cache_sem_compra,       \* entries of st.cache_data(ttl=600) of get_clientes_sem_compra
    cache_evolucao          \* entries of st.cache_data(ttl=600) of get_evolucao_clientes

\* the tables of the database
tabelas == <<vendas, clientes>>

\* the values of the three multiselects
selecoes == <<fornecedores_sel, cidades_sel, vendedores_sel_report>>

\* what the press of "Gerar Relatório" computes and shows
relatorio == <<gerado, df_sem_compra, df_evolucao, pivot_situacao, pivot_vendedor, pivot_cidade>>

\* the stores of st.cache_data
caches == <<cache_vendedores, cache_sem_compra, cache_evolucao>>

vars == <<tabelas, selecoes, relatorio, saidas, consultas, caches>>

-----------------------------------------------------------------------------
(* Bounds of the model *)

\* largest number of rows of table vendas in a snapshot
MaxVendas == 2

\* largest number of values picked in one multiselect
MaxSelecionados == 1

\* largest threshold (meses_sem_compra argument) the threshold claims range over
MaxMeses == 14

\* largest number of entries a store of st.cache_data holds in a session
MaxEntradas == 2

\* the seconds that pass in one step of the clock
Passo == 300

\* @st.cache_data(ttl=600) of get_clientes_sem_compra and get_evolucao_clientes
TTL_RELATORIOS == 600

\* @st.cache_data(ttl=3600) of get_vendedores and the other lookups
TTL_LISTAS == 3600

-----------------------------------------------------------------------------
(* Values *)

\* SQL NULL / Python None
NULL == "NULL"

\* a date value (data_emissao, data_desligamento, CURRENT_DATE)
Data(a, m, d) == [ano |-> a, mes |-> m, dia |-> d]

\* total order of dates, as SQL compares them
DataOrd(d) == (d.ano * 12 + (d.mes - 1)) * 31 + (d.dia - 1)

\* CURRENT_DATE of the database session in which the queries run
CURRENT_DATE == Data(2025, 2, 15)

\* SQL NULL in a date column
DATA_NULA == Data(0, 0, 0)

\* text values, one character per element
TODOS == <<"T", "o", "d", "o", "s">>
TXT_1 == <<"1">>
TXT_2 == <<"2">>
TXT_13 == <<"1", "3">>
TXT_7 == <<"7">>
RS_50 == <<"R", "$", " ", "5", "0", ",", "0", "0">>
RS_100 == <<"R", "$", " ", "1", "0", "0", ",", "0", "0">>
RS_1000 == <<"R", "$", " ", "1", ".", "0", "0", "0", ",", "0", "0">>

\* value of a decimal digit character
Digito(c) ==
    CASE c = "0" -> 0 [] c = "1" -> 1 [] c = "2" -> 2 [] c = "3" -> 3
      [] c = "4" -> 4 [] c = "5" -> 5 [] c = "6" -> 6 [] c = "7" -> 7
      [] c = "8" -> 8 [] c = "9" -> 9

\* the decimal digit character of a value 0..9
Caractere(n) ==
    CASE n = 0 -> "0" [] n = 1 -> "1" [] n = 2 -> "2" [] n = 3 -> "3"
      [] n = 4 -> "4" [] n = 5 -> "5" [] n = 6 -> "6" [] n = 7 -> "7"
      [] n = 8 -> "8" [] n = 9 -> "9"

\* collation code of a character (digits and the hyphen of 'YYYY-MM-DD')
Codigo(c) == IF c = "-" THEN 45 ELSE 48 + Digito(c)

\* text of decimal digits -> integer (the ::int cast)
RECURSIVE CastInt(_)
CastInt(s) ==
    IF s = <<>> THEN 0
    ELSE CastInt(SubSeq(s, 1, Len(s) - 1)) * 10 + Digito(s[Len(s)])

\* SQL REPLACE(s, de, para): every occurrence of de in s becomes para
RECURSIVE REPLACE(_, _, _)
REPLACE(s, de, para) ==
    IF Len(s) < Len(de) THEN s
    ELSE IF SubSeq(s, 1, Len(de)) = de
         THEN para \o REPLACE(SubSeq(s, Len(de) + 1, Len(s)), de, para)
         ELSE <<s[1]>> \o REPLACE(Tail(s), de, para)

\* position of the first "." of s, or 0
RECURSIVE PosPonto(_, _)
PosPonto(s, i) ==
    IF i > Len(s) THEN 0 ELSE IF s[i] = "." THEN i ELSE PosPonto(s, i + 1)

\* the ::NUMERIC cast of 'ddd.dd', kept exactly as a number of hundredths
CastNumeric(s) ==
    LET p == PosPonto(s, 1)
        inteira == IF p = 0 THEN s ELSE SubSeq(s, 1, p - 1)
        fracao == IF p = 0 THEN <<>> ELSE SubSeq(s, p + 1, Len(s))
        centesimos == SubSeq(fracao \o <<"0", "0">>, 1, 2)
    IN  CastInt(inteira) * 100 + CastInt(centesimos)

\* REPLACE(REPLACE(REPLACE(valor_liq, 'R$ ', ''), '.', ''), ',', '.')::NUMERIC
ValorLiq(valor_liq) ==
    CastNumeric(REPLACE(REPLACE(REPLACE(valor_liq, <<"R", "$", " ">>, <<>>),
                                <<".">>, <<>>), <<",">>, <<".">>))

\* n written with exactly k decimal digits (zero padded)
RECURSIVE Digitos(_, _)
Digitos(n, k) ==
    IF k = 0 THEN <<>> ELSE Digitos(n \div 10, k - 1) \o <<Caractere(n % 10)>>

\* the decimal digits of n without padding
RECURSIVE SemZeros(_)
SemZeros(n) == IF n < 10 THEN <<Caractere(n)>> ELSE SemZeros(n \div 10) \o <<Caractere(n % 10)>>

\* TO_CHAR with the month and the day not padded ('YYYY-FMMM-FMDD')
TO_CHAR_SemZeros(d) == SemZeros(d.ano) \o <<"-">> \o SemZeros(d.mes) \o <<"-">> \o SemZeros(d.dia)

\* TO_CHAR(d, 'YYYY-MM-DD')
TO_CHAR(d) == Digitos(d.ano, 4) \o <<"-">> \o Digitos(d.mes, 2) \o <<"-">> \o Digitos(d.dia, 2)

\* text comparison a < b, character by character
RECURSIVE TextoMenor(_, _)
TextoMenor(a, b) ==
    IF b = <<>> THEN FALSE
    ELSE IF a = <<>> THEN TRUE
    ELSE IF a[1] # b[1] THEN Codigo(a[1]) < Codigo(b[1])
    ELSE TextoMenor(Tail(a), Tail(b))

\* DATE_TRUNC('month', d)
DATE_TRUNC_month(d) == Data(d.ano, d.mes, 1)

\* DATE_TRUNC('year', CURRENT_DATE - INTERVAL '1 year')
InicioJanela == Data(CURRENT_DATE.ano - 1, 1, 1)

-----------------------------------------------------------------------------
(* Tables that the snapshots hold fixed *)

\* table vendedores: code, display name, termination date
vendedores ==
    { [vendedor |-> TXT_1, nome |-> "ANA", data_desligamento |-> DATA_NULA],
      [vendedor |-> TXT_2, nome |-> "CASA", data_desligamento |-> DATA_NULA],
      [vendedor |-> TXT_13, nome |-> "BIA", data_desligamento |-> Data(2024, 6, 30)] }

\* table mercadorias: merchandise -> supplier name
mercadorias ==
    { [mercadoria |-> 10, fornecedor |-> 10263, nome_fornecedor |-> "FORN_A"],
      [mercadoria |-> 20, fornecedor |-> 11588, nome_fornecedor |-> "FORN_B"] }

-----------------------------------------------------------------------------
(* Filter clauses built from the selections *)

\* FiltroAtivo without the test that the selection is not empty
FiltroAtivo_SemVazio(sel, sentinela) == sentinela \notin sel

\* "if <sentinel> not in sel and sel": the selection adds a clause to the query
FiltroAtivo(sel, sentinela) == sentinela \notin sel /\ sel # {}

\* {filtro_vendedor_vendas}: AND v.vendedor IN (...)
filtro_vendedor_vendas(v, vendedores_sel) ==
    FiltroAtivo(vendedores_sel, TODOS) => v.vendedor \in vendedores_sel

\* {filtro_cidade}: AND c.cidade IN (...)
filtro_cidade(c, cid_sel) ==
    FiltroAtivo(cid_sel, "Todas") => c.cidade \in cid_sel

\* filtro_fornecedor testing the sentinel of the city dimension
filtro_fornecedor_OutraSentinela(m, forn_sel) ==
    FiltroAtivo(forn_sel, "Todas") => m.nome_fornecedor \in forn_sel

\* {filtro_fornecedor}: AND m.nome_fornecedor IN (...)
filtro_fornecedor(m, forn_sel) ==
    FiltroAtivo(forn_sel, "Todos") => m.nome_fornecedor \in forn_sel

-----------------------------------------------------------------------------
(* get_clientes_sem_compra *)

\* ultimas_vendas without the test "v.vendedor != '2'"
ultimas_vendas_ComCasa(forn_sel, vend_sel) ==
    { [cliente |-> v.cliente,
       data_ultima_compra |-> v.data_emissao,
       ultimo_vendedor_cod |-> v.vendedor] :
      v \in { x \in vendas :
                /\ \E m \in mercadorias :
                      x.mercadoria = m.mercadoria /\ filtro_fornecedor(m, forn_sel)
                /\ filtro_vendedor_vendas(x, vend_sel) } }

\* rows of the CTE ultimas_vendas before the row numbering
ultimas_vendas(forn_sel, vend_sel) ==
    { [cliente |-> v.cliente,
       data_ultima_compra |-> v.data_emissao,
       ultimo_vendedor_cod |-> v.vendedor] :
      v \in { x \in vendas :
                /\ \E m \in mercadorias :
                      x.mercadoria = m.mercadoria /\ filtro_fornecedor(m, forn_sel)
                /\ x.vendedor # TXT_2
                /\ filtro_vendedor_vendas(x, vend_sel) } }

\* rows of one customer that ROW_NUMBER() ... ORDER BY data_emissao DESC may number 1
\* (rows that tie on the date are numbered in an order the database chooses)
PrimeirasLinhas(uv, cli) ==
    { r \in uv :
        /\ r.cliente = cli
        /\ \A o \in uv : o.cliente = cli =>
              DataOrd(o.data_ultima_compra) <= DataOrd(r.data_ultima_compra) }

\* the possible outcomes of "WHERE uv.rn = 1": one row per customer of uv
LinhasRn1(uv) ==
    LET clis == { r.cliente : r \in uv }
    IN  { { f[c] : c \in clis } :
            f \in { g \in [clis -> uv] : \A c \in clis : g[c] \in PrimeirasLinhas(uv, c) } }

\* Situacao with the branches of 'A28' and 'S' exchanged
Situacao_AntecipadoPrimeiro(c) ==
    IF c.antecipado = "A28" THEN "Antecipado"
    ELSE IF c.situacao = "S" THEN "Suspenso"
    ELSE IF c.limite_aberto = 0 THEN "Suspenso"
    ELSE "Liberado"

\* the CASE expression that labels the customer's situation
Situacao(c) ==
    IF c.situacao = "S" THEN "Suspenso"
    ELSE IF c.antecipado = "A28" THEN "Antecipado"
    ELSE IF c.limite_aberto = 0 THEN "Suspenso"
    ELSE "Liberado"

\* MesesSemCompra counting complete months only (a month less while the day of the
\* purchase is after today's day)
MesesSemCompra_ComDia(d) ==
    (CURRENT_DATE.ano - d.ano) * 12 + (CURRENT_DATE.mes - d.mes)
    - (IF d.dia > CURRENT_DATE.dia THEN 1 ELSE 0)

\* (EXTRACT(YEAR FROM CURRENT_DATE) - EXTRACT(YEAR FROM d)) * 12 +
\* (EXTRACT(MONTH FROM CURRENT_DATE) - EXTRACT(MONTH FROM d))
MesesSemCompra(d) ==
    (CURRENT_DATE.ano - d.ano) * 12 + (CURRENT_DATE.mes - d.mes)

\* the threshold predicate of the WHERE clause
FiltroMeses(d, meses) == MesesSemCompra(d) >= meses

\* the rows of the final SELECT for one outcome uv1 of the row numbering
LinhasRelatorio(uv1, meses, cid_sel) ==
    UNION { { [cliente |-> c.cliente,
               raz_social |-> c.raz_social,
               cidade |-> c.cidade,
               ultimo_vendedor_cod |-> CastInt(uv.ultimo_vendedor_cod),
               nome_vendedor |-> ven.nome,
               data_desligamento |-> ven.data_desligamento,
               situacao |-> Situacao(c),
               limite |-> c.limite_aberto,
               data_ultima_compra |-> uv.data_ultima_compra,
               meses_sem_compra |-> MesesSemCompra(uv.data_ultima_compra)] :
             ven \in
               LET casam == { x \in vendedores : x.vendedor = uv.ultimo_vendedor_cod }
               IN  IF casam = {}
                   THEN { [vendedor |-> <<>>, nome |-> NULL, data_desligamento |-> DATA_NULA] }
                   ELSE casam } :
           <<uv, c>> \in { p \in uv1 \X clientes :
                             /\ p[1].cliente = p[2].cliente
                             /\ FiltroMeses(p[1].data_ultima_compra, meses)
                             /\ filtro_cidade(p[2], cid_sel) } }

\* the orders "ORDER BY meses_sem_compra DESC" may return the rows in
OrdenacoesDesc(linhas) ==
    { s \in [1..Cardinality(linhas) -> linhas] :
        /\ \A i, j \in DOMAIN s : i # j => s[i] # s[j]
        /\ \A i, j \in DOMAIN s : i < j => s[i].meses_sem_compra >= s[j].meses_sem_compra }

\* get_clientes_sem_compra: the set of data frames the query may return
get_clientes_sem_compra(meses, forn_sel, cid_sel, vend_sel) ==
    UNION { OrdenacoesDesc(LinhasRelatorio(uv1, meses, cid_sel)) :
            uv1 \in LinhasRn1(ultimas_vendas(forn_sel, vend_sel)) }

-----------------------------------------------------------------------------
(* get_evolucao_clientes *)

\* the rows of vendas JOIN mercadorias JOIN clientes that pass the WHERE clause
VendasEvolucao(forn_sel, cid_sel, vend_sel) ==
    { v \in vendas :
        /\ \E m \in mercadorias :
              v.mercadoria = m.mercadoria /\ filtro_fornecedor(m, forn_sel)
        /\ \E c \in clientes : v.cliente = c.cliente /\ filtro_cidade(c, cid_sel)
        /\ DataOrd(v.data_emissao) >= DataOrd(InicioJanela)
        /\ v.vendedor # TXT_2
        /\ filtro_vendedor_vendas(v, vend_sel) }

\* the term one row adds to SUM(CASE ... END), in hundredths
ParcelaVenda(v) ==
    IF v.tipo = "V" THEN ValorLiq(v.valor_liq)
    ELSE IF v.tipo = "D" THEN 0 - ValorLiq(v.valor_liq)
    ELSE 0

\* SUM over a set of rows
RECURSIVE SomaVendas(_)
SomaVendas(linhas) ==
    IF linhas = {} THEN 0
    ELSE LET v == CHOOSE x \in linhas : TRUE
         IN  ParcelaVenda(v) + SomaVendas(linhas \ {v})

\* the CTE vendas_por_cliente: one row per (month, customer)
vendas_por_cliente(forn_sel, cid_sel, vend_sel) ==
    LET ve == VendasEvolucao(forn_sel, cid_sel, vend_sel)
    IN  { [mes_ref |-> g[1],
           cliente |-> g[2],
           total_venda |-> SomaVendas({ v \in ve :
                              /\ DATE_TRUNC_month(v.data_emissao) = g[1]
                              /\ v.cliente = g[2] })] :
          g \in { <<DATE_TRUNC_month(v.data_emissao), v.cliente>> : v \in ve } }

\* ClientesComVenda counting the customers of a null net value too
ClientesComVenda_MaiorIgual(grupo) ==
    Cardinality({ r.cliente : r \in { x \in grupo : x.total_venda >= 0 } })

\* COUNT(DISTINCT CASE WHEN total_venda > 0 THEN cliente END) over a group
ClientesComVenda(grupo) == Cardinality({ r.cliente : r \in { x \in grupo : x.total_venda > 0 } })

\* the final SELECT: one row per mes_ref of vendas_por_cliente
LinhasEvolucao(vpc) ==
    { [mes_ref |-> TO_CHAR(mes),
       qtd_clientes_total |-> Cardinality({ r.cliente : r \in { x \in vpc : x.mes_ref = mes } }),
       qtd_clientes_com_venda |-> ClientesComVenda({ x \in vpc : x.mes_ref = mes })] :
      mes \in { r.mes_ref : r \in vpc } }

\* ORDER BY mes_ref: the rows in ascending order of the text column mes_ref
RECURSIVE OrdenarPorMesRef(_)
OrdenarPorMesRef(linhas) ==
    IF linhas = {} THEN <<>>
    ELSE LET menor == CHOOSE r \in linhas :
                         \A o \in linhas : ~ TextoMenor(o.mes_ref, r.mes_ref)
         IN  <<menor>> \o OrdenarPorMesRef(linhas \ {menor})

\* get_evolucao_clientes: the data frame the query returns
get_evolucao_clientes(forn_sel, cid_sel, vend_sel) ==
    OrdenarPorMesRef(LinhasEvolucao(vendas_por_cliente(forn_sel, cid_sel, vend_sel)))

-----------------------------------------------------------------------------
(* main: the filter widgets *)

\* the threshold main passes: "meses_sem_compra = 0"
meses_sem_compra == 0

\* get_vendedores: dict code -> name of the salespeople that have a sale
\* (as a set of <<code, name>> pairs)
vendedores_dict ==
    { <<ven.vendedor, ven.nome>> :
      ven \in { x \in vendedores :
                  \E v \in vendas : v.vendedor = x.vendedor /\ v.vendedor # TXT_2 } }

\* nome_para_codigo = {v: k for k, v in vendedores_dict.items()}
nome_para_codigo == { <<p[2], p[1]>> : p \in vendedores_dict }

\* lines 297-301: the selected display names turned into codes
vendedores_cod_report(sel) ==
    IF "Todos" \in sel THEN {TODOS}
    ELSE { p[2] : p \in { q \in nome_para_codigo : q[1] \in sel } }

\* "if 'Todos' in fornecedores_sel: fornecedores_sel = ['Todos']" (same for cities)
NormalizarSel(sel, sentinela) == IF sentinela \in sel THEN {sentinela} ELSE sel

\* get_fornecedores: supplier names of the listed supplier ids
get_fornecedores ==
    { m.nome_fornecedor :
      m \in { x \in mercadorias :
                x.fornecedor \in {10124, 10275, 10263, 11058, 11098, 11300, 11392, 11449,
                                  11459, 11523, 11536, 11580, 11581, 11585, 11588} } }

\* get_cidades: cities of the MG customers that have a row in vendas
get_cidades ==
    { c.cidade :
      c \in { x \in clientes :
                /\ x.cidade # NULL
                /\ x.uf = "MG"
                /\ \E v \in vendas : v.cliente = x.cliente } }

\* display names the "Vendedor" multiselect may hold: the names of the directory;
\* a name that vendedores_dict does not list is the case the test
\* "if nome in nome_para_codigo" of line 301 provides for
NomesVendedor == { ven.nome : ven \in { x \in vendedores : x.vendedor # TXT_2 } }

\* the subsets of S with at most k elements
RECURSIVE SubconjuntosAte(_, _)
SubconjuntosAte(S, k) ==
    IF k = 0 THEN {{}}
    ELSE LET menores == SubconjuntosAte(S, k - 1)
         IN  menores \cup { t \cup {x} : t \in menores, x \in S }

\* the values a multiselect over the given options may return
Multiselect(opcoes) == SubconjuntosAte(opcoes, MaxSelecionados)

-----------------------------------------------------------------------------
(* main: the pivot tables built from df_sem_compra *)

\* lines 489-491: 'Vendedor Desligado' if pd.notnull(data_desligamento) else 'Vendedor Ativo'
status_vendedor(r) ==
    IF r.data_desligamento # DATA_NULA THEN "Vendedor Desligado" ELSE "Vendedor Ativo"

\* vendedor_completo taking a missing name for a text (a key 'None (Vendedor Ativo)')
vendedor_completo_SemNulo(r) == { <<r.nome_vendedor, status_vendedor(r)>> }

\* line 494: nome_vendedor + ' (' + status_vendedor + ')', as the pair of its two
\* parts; a missing name gives a missing value (NaN): the set of the row's values
vendedor_completo(r) ==
    IF r.nome_vendedor = NULL THEN {} ELSE { <<r.nome_vendedor, status_vendedor(r)>> }

\* the (index, column) key of a row in groupby(['meses_sem_compra', 'situacao'])
ChavesSituacao(r) == { <<r.meses_sem_compra, r.situacao>> }

\* the key of a row in groupby(['vendedor_completo', 'meses_sem_compra']); groupby
\* leaves out a row with a missing key
ChavesVendedor(r) == { <<k, r.meses_sem_compra>> : k \in vendedor_completo(r) }

\* the key of a row in groupby(['cidade', 'meses_sem_compra'])
ChavesCidade(r) == IF r.cidade = NULL THEN {} ELSE { <<r.cidade, r.meses_sem_compra>> }

\* df.groupby([a, b]).size().reset_index(name='quantidade')
\* for chaves, the keys of each row of the frame (none for a row that the groupby
\* drops)
groupby_size(chaves) ==
    { [chave |-> p,
       quantidade |-> Cardinality({ i \in DOMAIN chaves : p \in chaves[i] })] :
      p \in UNION { chaves[i] : i \in DOMAIN chaves } }

\* tabela.pivot(index=a, columns=b, values='quantidade').fillna(0).astype(int)
pivot(tabela) ==
    [ k \in { t.chave[1] : t \in tabela } |->
        [ c \in { t.chave[2] : t \in tabela } |->
            LET casam == { t \in tabela : t.chave = <<k, c>> }
            IN  IF casam = {} THEN 0 ELSE (CHOOSE t \in casam : TRUE).quantidade ] ]

\* sum of the values of f over the keys S
RECURSIVE Soma(_, _)
Soma(f, S) ==
    IF S = {} THEN 0
    ELSE LET x == CHOOSE y \in S : TRUE
         IN  f[x] + Soma(f, S \ {x})

\* the keys S in ascending order of their position (pivot sorts the index)
RECURSIVE sort_index(_, _)
sort_index(S, posicao) ==
    IF S = {} THEN <<>>
    ELSE LET m == CHOOSE x \in S : \A y \in S : posicao[x] <= posicao[y]
         IN  <<m>> \o sort_index(S \ {m}, posicao)

\* f"{int(n)} {'mês' if n == 1 else 'meses'}": the label of a bucket
RotuloMeses(n) == <<n, IF n = 1 THEN "mês" ELSE "meses">>

\* a key that is kept as the label
Mesma(k) == k

\* the cells of a row with the bucket columns renamed to their labels
RenomearColunas(celulas) ==
    [ l \in { RotuloMeses(c) : c \in DOMAIN celulas } |->
        celulas[CHOOSE c \in DOMAIN celulas : RotuloMeses(c) = l] ]

\* pivot['Total'] = pivot.sum(axis=1); pivot.loc[rotulo_total] = pivot.sum():
\* the rows in index order, each with its cells and its Total, then the row of the
\* column sums (the sum of column Total included)
ComTotais(dados, indice, rotulos, rotulo_total) ==
    LET cols == IF indice = <<>> THEN {} ELSE DOMAIN dados[indice[1]]
        total == [ k \in DOMAIN dados |-> Soma(dados[k], cols) ]
    IN  [ i \in 1..Len(indice) |->
            [chave |-> rotulos[indice[i]],
             celulas |-> dados[indice[i]],
             Total |-> total[indice[i]]] ]
        \o << [chave |-> rotulo_total,
               celulas |-> [ c \in cols |->
                               Soma([ k \in DOMAIN dados |-> dados[k][c] ], DOMAIN dados) ],
               Total |-> Soma(total, DOMAIN dados)] >>

\* other_rows.sort_values('Total', ascending=False): the default kind 'quicksort' is
\* not a stable sort, so rows of equal Total come in an order the build chooses
sort_values_Total(linhas) ==
    { s \in [1..Len(linhas) -> { linhas[i] : i \in DOMAIN linhas }] :
        /\ \A i, j \in DOMAIN s : i # j => s[i] # s[j]
        /\ \A i, j \in DOMAIN s : i < j => s[i].Total >= s[j].Total }

\* lines 508-512 and 553-557: the rows other than 'Total Geral' sorted by Total,
\* then the row 'Total Geral'
TotalGeralNoFinal(linhas, rotulo_total) ==
    LET total_row == SelectSeq(linhas, LAMBDA r : r.chave = rotulo_total)
        other_rows == SelectSeq(linhas, LAMBDA r : r.chave # rotulo_total)
    IN  { s \o total_row : s \in sort_values_Total(other_rows) }

\* collation rank of the texts of the snapshots (the order of an index of texts)
Colacao(txt) ==
    CASE txt = "ANA" -> 1 [] txt = "ARAXA" -> 2 [] txt = "BIA" -> 3
      [] txt = "UBERABA" -> 4 [] txt = "Vendedor Ativo" -> 5
      [] txt = "Vendedor Desligado" -> 6 [] OTHER -> 7

\* lines 438-447: pivot_situacao (bucket x status), the index renamed to labels
PivotSituacao(df) ==
    LET dados == pivot(groupby_size([ i \in DOMAIN df |-> ChavesSituacao(df[i]) ]))
        indice == sort_index(DOMAIN dados, [ k \in DOMAIN dados |-> k ])
    IN  ComTotais(dados, indice, [ k \in DOMAIN dados |-> RotuloMeses(k) ], <<"Total Geral">>)

\* lines 489-512: the pivot_vendedor tables (salesperson x bucket) that may result
PivotVendedor(df) ==
    LET dados == pivot(groupby_size([ i \in DOMAIN df |-> ChavesVendedor(df[i]) ]))
        indice == sort_index(DOMAIN dados,
                     [ k \in DOMAIN dados |-> Colacao(k[1]) * 10 + Colacao(k[2]) ])
        linhas == ComTotais(dados, indice, [ k \in DOMAIN dados |-> Mesma(k) ], <<"Total Geral">>)
    IN  TotalGeralNoFinal([ i \in DOMAIN linhas |->
                              [linhas[i] EXCEPT !.celulas = RenomearColunas(@)] ],
                          <<"Total Geral">>)

\* lines 542-557: the pivot_cidade tables (city x bucket) that may result
PivotCidade(df) ==
    LET dados == pivot(groupby_size([ i \in DOMAIN df |-> ChavesCidade(df[i]) ]))
        indice == sort_index(DOMAIN dados, [ k \in DOMAIN dados |-> Colacao(k) ])
        linhas == ComTotais(dados, indice, [ k \in DOMAIN dados |-> Mesma(k) ], "Total Geral")
    IN  TotalGeralNoFinal([ i \in DOMAIN linhas |->
                              [linhas[i] EXCEPT !.celulas = RenomearColunas(@)] ],
                          "Total Geral")

-----------------------------------------------------------------------------
(* Snapshots of the database *)

\* a row of table vendas
Venda(cli, ven, merc, data, tipo, valor) ==
    [cliente |-> cli, vendedor |-> ven, mercadoria |-> merc,
     data_emissao |-> data, tipo |-> tipo, valor_liq |-> valor]

\* issue dates of the rows: before the evolution window, its first day,
\* two months of the previous year, the current month
DatasVenda ==
    { Data(2023, 12, 28), Data(2024, 1, 1), Data(2024, 3, 10),
      Data(2024, 10, 28), Data(2025, 2, 1) }

\* the rows a snapshot of vendas is drawn from: regular sales of customer 1 by two
\* salespeople and of two suppliers on every date, some of customer 2, returns of
\* three values, a sale of the house account, a sale of a merchandise without
\* supplier and a row of another transaction type
Lancamentos ==
    { Venda(1, vm[1], vm[2], d, "V", RS_100) :
        vm \in { <<TXT_1, 10>>, <<TXT_13, 10>>, <<TXT_1, 20>> }, d \in DatasVenda }
    \cup { Venda(2, TXT_1, 10, d, "V", RS_100) :
        d \in { Data(2023, 12, 28), Data(2024, 10, 28), Data(2025, 2, 1) } }
    \cup { Venda(2, TXT_13, 10, Data(2024, 10, 28), "V", RS_100),
           Venda(2, TXT_1, 10, Data(2024, 10, 28), "D", RS_100) }
    \cup { Venda(1, TXT_1, 10, d, "D", valor) :
        d \in { Data(2024, 3, 10), Data(2025, 2, 1) },
        valor \in { RS_50, RS_100, RS_1000 } }
    \cup { Venda(1, TXT_2, 10, Data(2025, 2, 1), "V", RS_100),
           Venda(1, TXT_1, 99, Data(2025, 2, 1), "V", RS_100),
           Venda(2, TXT_1, 10, Data(2024, 3, 10), "B", RS_100) }

\* a row of table clientes
Cliente(cli, nome, cidade, uf, situacao, antecipado, limite) ==
    [cliente |-> cli, raz_social |-> nome, cidade |-> cidade, uf |-> uf,
     situacao |-> situacao, antecipado |-> antecipado, limite_aberto |-> limite]

\* the customer register of the ledger snapshots
ClientesBase ==
    { Cliente(1, "MERCADO UM", "UBERABA", "MG", "N", "A14", 500),
      Cliente(2, "MERCADO DOIS", "ARAXA", "MG", "N", "A28", 0) }

\* registers that vary the fields of customer 1
Cadastros ==
    { { Cliente(1, "MERCADO UM", cidade, "MG", situacao, antecipado, limite),
        Cliente(2, "MERCADO DOIS", "ARAXA", "MG", "N", "A28", 0) } :
      cidade \in {"UBERABA", NULL}, situacao \in {"S", "N", NULL},
      antecipado \in {"A28", "A14", NULL}, limite \in {0, 500} }

\* ledgers of the register snapshots; code '7' is of no row of table vendedores
VendasCadastro ==
    { { Venda(1, TXT_1, 10, Data(2024, 10, 28), "V", RS_100) },
      { Venda(1, TXT_13, 20, Data(2025, 2, 1), "V", RS_100),
        Venda(2, TXT_1, 10, Data(2024, 3, 10), "V", RS_100) },
      { Venda(1, TXT_7, 10, Data(2024, 10, 28), "V", RS_100) },
      { Venda(1, TXT_7, 10, Data(2024, 10, 28), "V", RS_100),
        Venda(2, TXT_1, 10, Data(2024, 3, 10), "V", RS_100) } }

-----------------------------------------------------------------------------
(* The state machine *)

\* lines 308-619: what the script shows for the two data frames; erros are the
\* st.error elements of the calls that produced them
Renderizar(df, dfe, erros) ==
    /\ gerado' = TRUE
    /\ df_sem_compra' = df
    /\ df_evolucao' = dfe
    /\ IF df # <<>>
       THEN /\ pivot_situacao' = PivotSituacao(df)
            /\ pivot_vendedor' \in PivotVendedor(df)
            /\ pivot_cidade' \in PivotCidade(df)
            /\ saidas' = erros
                 \cup {"success", "grafico_distribuicao", "pivots", "tabela"}
                 \cup (IF dfe # <<>> THEN {"graficos_evolucao"} ELSE {})
       ELSE /\ pivot_situacao' = <<>>
            /\ pivot_vendedor' = <<>>
            /\ pivot_cidade' = <<>>
            /\ saidas' = erros \cup {"info_nenhum"}

\* a run of the script without the button pressed shows no report
SemRelatorio ==
    /\ gerado' = FALSE
    /\ df_sem_compra' = <<>>
    /\ df_evolucao' = <<>>
    /\ pivot_situacao' = <<>>
    /\ pivot_vendedor' = <<>>
    /\ pivot_cidade' = <<>>

Init ==
    /\ \/ /\ vendas \in SubconjuntosAte(Lancamentos, MaxVendas)
          /\ clientes = ClientesBase
       \/ /\ vendas \in VendasCadastro
          /\ clientes \in Cadastros
    /\ fornecedores_sel = {"Todos"}
    /\ cidades_sel = {"Todas"}
    /\ vendedores_sel_report = {"Todos"}
    /\ gerado = FALSE
    /\ df_sem_compra = <<>>
    /\ df_evolucao = <<>>
    /\ pivot_situacao = <<>>
    /\ pivot_vendedor = <<>>
    /\ pivot_cidade = <<>>
    /\ saidas = {}
    /\ consultas = {}
    /\ cache_vendedores = {}
    /\ cache_sem_compra = {}
    /\ cache_evolucao = {}

\* Spec follows the requests that find the stores of st.cache_data empty and the
\* database reachable: every call runs its query (SpecSessao has the stores)

\* the user changes the "Fornecedor" multiselect (lines 285-287); the script reruns
SelecionarFornecedores ==
    \E sel \in Multiselect({"Todos"} \cup get_fornecedores) :
        /\ NormalizarSel(sel, "Todos") # fornecedores_sel
        /\ fornecedores_sel' = NormalizarSel(sel, "Todos")
        /\ SemRelatorio
        /\ saidas' = {}
        /\ consultas' = {"get_vendedores"}
        /\ UNCHANGED <<tabelas, cidades_sel, vendedores_sel_report, caches>>

\* the user changes the "Cidade" multiselect (lines 290-292); the script reruns
SelecionarCidades ==
    \E sel \in Multiselect({"Todas"} \cup get_cidades) :
        /\ NormalizarSel(sel, "Todas") # cidades_sel
        /\ cidades_sel' = NormalizarSel(sel, "Todas")
        /\ SemRelatorio
        /\ saidas' = {}
        /\ consultas' = {"get_vendedores"}
        /\ UNCHANGED <<tabelas, fornecedores_sel, vendedores_sel_report, caches>>

\* the user changes the "Vendedor" multiselect (line 295); the script reruns
SelecionarVendedores ==
    \E sel \in Multiselect({"Todos"} \cup NomesVendedor) :
        /\ sel # vendedores_sel_report
        /\ vendedores_sel_report' = sel
        /\ SemRelatorio
        /\ saidas' = {}
        /\ consultas' = {"get_vendedores"}
        /\ UNCHANGED <<tabelas, fornecedores_sel, cidades_sel, caches>>

\* the user presses "Gerar Relatório" (lines 303-619)
GerarRelatorio ==
    /\ \E df \in get_clientes_sem_compra(meses_sem_compra, fornecedores_sel,
                    cidades_sel, vendedores_cod_report(vendedores_sel_report)) :
          Renderizar(df,
                     get_evolucao_clientes(fornecedores_sel, cidades_sel,
                         vendedores_cod_report(vendedores_sel_report)),
                     {})
    /\ consultas' = {"get_vendedores", "get_clientes_sem_compra", "get_evolucao_clientes"}
    /\ UNCHANGED <<tabelas, selecoes, caches>>

Next ==
    \/ SelecionarFornecedores
    \/ SelecionarCidades
    \/ SelecionarVendedores
    \/ GerarRelatorio

Spec == Init /\ [][Next]_vars

-----------------------------------------------------------------------------
(* The session: the stores of st.cache_data and the failures of the queries *)

\* Guardar keeping only what a successful query returned
Guardar_SoSucesso(cache, chave, res) ==
    IF res.erro THEN cache
    ELSE cache \cup { [chave |-> chave, valor |-> res.valor, erro |-> res.erro, idade |-> 0] }

\* st.cache_data stores what the function returned for the arguments, with the
\* elements it showed (st.error), whether the query failed or not
Guardar(cache, chave, res) ==
    cache \cup { [chave |-> chave, valor |-> res.valor, erro |-> res.erro, idade |-> 0] }

\* st.cache_data: the outcomes of a call.  A stored entry of the arguments is
\* returned (and its elements shown again) without running the function; otherwise
\* the function runs its query and what it returns is stored.
Chamar(cache, chave, consulta) ==
    LET guardadas == { e \in cache : e.chave = chave }
    IN  IF guardadas # {}
        THEN { [res |-> [valor |-> e.valor, erro |-> e.erro],
                cache |-> cache, consultou |-> FALSE] : e \in guardadas }
        ELSE { [res |-> r, cache |-> Guardar(cache, chave, r), consultou |-> TRUE] :
               r \in consulta }

\* the entries of a store Passo seconds later: an entry as old as its ttl is gone
Envelhecer(cache, ttl) ==
    { [e EXCEPT !.idade = @ + Passo] : e \in { x \in cache : x.idade + Passo < ttl } }

\* lines 58-67: what get_vendedores returns when its query runs: the dict, or {}
\* after st.error when pd.read_sql raises
ConsultaVendedores ==
    { [valor |-> vendedores_dict, erro |-> FALSE], [valor |-> {}, erro |-> TRUE] }

\* lines 179-183: what get_clientes_sem_compra returns when its query runs: a data
\* frame of the query, or the empty pd.DataFrame() after st.error
ConsultaSemCompra(meses, forn_sel, cid_sel, vend_sel) ==
    { [valor |-> df, erro |-> FALSE] :
        df \in get_clientes_sem_compra(meses, forn_sel, cid_sel, vend_sel) }
    \cup { [valor |-> <<>>, erro |-> TRUE] }

\* lines 238-242: the same for get_evolucao_clientes
ConsultaEvolucao(forn_sel, cid_sel, vend_sel) ==
    { [valor |-> get_evolucao_clientes(forn_sel, cid_sel, vend_sel), erro |-> FALSE],
      [valor |-> <<>>, erro |-> TRUE] }

\* line 275: vendedor_opcoes = ['Todos'] + list(vendedores_dict.values())
vendedor_opcoes(dict) == {"Todos"} \cup { p[2] : p \in dict }

\* the value a multiselect returns in a run: the user's selection, or the default
\* when the options of this run no longer hold it
ValorWidget(sel, opcoes) == IF sel \subseteq opcoes THEN sel ELSE {"Todos"}

\* lines 297-301 for the dict that get_vendedores returned in this run
CodigosCom(dict, sel) ==
    IF "Todos" \in sel THEN {TODOS}
    ELSE { p[1] : p \in { q \in dict : q[2] \in sel } }

\* the st.error elements of the three calls of a run
Erros(rv, rs, re) ==
    (IF rv.erro THEN {"erro_vendedores"} ELSE {})
    \cup (IF rs.erro THEN {"erro_sem_compra"} ELSE {})
    \cup (IF re.erro THEN {"erro_evolucao"} ELSE {})

\* ledgers of the sessions: no transaction; two sales of one customer on the same
\* date by two salespeople; one sale of each customer by a different salesperson
VendasSessao ==
    { {},
      { Venda(1, TXT_1, 10, Data(2025, 2, 1), "V", RS_100),
        Venda(1, TXT_13, 10, Data(2025, 2, 1), "V", RS_100) },
      { Venda(1, TXT_1, 10, Data(2024, 10, 28), "V", RS_100),
        Venda(2, TXT_13, 10, Data(2024, 3, 10), "V", RS_100) } }

InitSessao ==
    /\ vendas \in VendasSessao
    /\ clientes = ClientesBase
    /\ fornecedores_sel = {"Todos"}
    /\ cidades_sel = {"Todas"}
    /\ vendedores_sel_report = {"Todos"}
    /\ gerado = FALSE
    /\ df_sem_compra = <<>>
    /\ df_evolucao = <<>>
    /\ pivot_situacao = <<>>
    /\ pivot_vendedor = <<>>
    /\ pivot_cidade = <<>>
    /\ saidas = {}
    /\ consultas = {}
    /\ cache_vendedores = {}
    /\ cache_sem_compra = {}
    /\ cache_evolucao = {}

\* the user changes the "Vendedor" multiselect; the script reruns (lines 274-301)
SelecionarVendedoresSessao ==
    \E cv \in Chamar(cache_vendedores, <<>>, ConsultaVendedores) :
      \E sel \in Multiselect(vendedor_opcoes(cv.res.valor)) :
        /\ sel # vendedores_sel_report
        /\ vendedores_sel_report' = sel
        /\ cache_vendedores' = cv.cache
        /\ SemRelatorio
        /\ saidas' = IF cv.res.erro THEN {"erro_vendedores"} ELSE {}
        /\ consultas' = IF cv.consultou THEN {"get_vendedores"} ELSE {}
        /\ UNCHANGED <<tabelas, fornecedores_sel, cidades_sel,
                       cache_sem_compra, cache_evolucao>>

\* the user presses "Gerar Relatório"; the script reruns (lines 274-619)
GerarRelatorioSessao ==
    \E cv \in Chamar(cache_vendedores, <<>>, ConsultaVendedores) :
      LET sel == ValorWidget(vendedores_sel_report, vendedor_opcoes(cv.res.valor))
          cod == CodigosCom(cv.res.valor, sel)
      IN  \E cs \in Chamar(cache_sem_compra,
                           <<meses_sem_compra, fornecedores_sel, cidades_sel, cod>>,
                           ConsultaSemCompra(meses_sem_compra, fornecedores_sel,
                                             cidades_sel, cod)),
             ce \in Chamar(cache_evolucao,
                           <<fornecedores_sel, cidades_sel, cod>>,
                           ConsultaEvolucao(fornecedores_sel, cidades_sel, cod)) :
            /\ Cardinality(cs.cache) <= MaxEntradas
            /\ Cardinality(ce.cache) <= MaxEntradas
            /\ vendedores_sel_report' = sel
            /\ cache_vendedores' = cv.cache
            /\ cache_sem_compra' = cs.cache
            /\ cache_evolucao' = ce.cache
            /\ Renderizar(cs.res.valor, ce.res.valor, Erros(cv.res, cs.res, ce.res))
            /\ consultas' =
                 (IF cv.consultou THEN {"get_vendedores"} ELSE {})
                 \cup (IF cs.consultou THEN {"get_clientes_sem_compra"} ELSE {})
                 \cup (IF ce.consultou THEN {"get_evolucao_clientes"} ELSE {})
            /\ UNCHANGED <<tabelas, fornecedores_sel, cidades_sel>>

\* Passo seconds pass with the page as it is
PassarTempo ==
    /\ cache_vendedores' = Envelhecer(cache_vendedores, TTL_LISTAS)
    /\ cache_sem_compra' = Envelhecer(cache_sem_compra, TTL_RELATORIOS)
    /\ cache_evolucao' = Envelhecer(cache_evolucao, TTL_RELATORIOS)
    /\ UNCHANGED <<tabelas, selecoes, relatorio, saidas, consultas>>

NextSessao ==
    \/ SelecionarVendedoresSessao
    \/ GerarRelatorioSessao
    \/ PassarTempo

SpecSessao == InitSessao /\ [][NextSessao]_vars

-----------------------------------------------------------------------------
(* Vocabulary of the properties *)

\* the codes the report functions receive for the current "Vendedor" selection
CodSel == vendedores_cod_report(vendedores_sel_report)

\* a selection admits a value: it holds the sentinel, is empty, or lists the value
Admite(sel, sentinela, valor) == sentinela \in sel \/ sel = {} \/ valor \in sel

\* a selection is explicit: not empty and without the sentinel
Explicita(sel, sentinela) == sel # {} /\ sentinela \notin sel

\* qualifying sale of the specification: a regular sale, not of the house account,
\* of a merchandise with a supplier, admitted by the supplier and salesperson selections
VendaQualificada(v, forn_sel, vend_sel) ==
    /\ v.tipo = "V"
    /\ v.vendedor # TXT_2
    /\ Admite(vend_sel, TODOS, v.vendedor)
    /\ \E m \in mercadorias :
          m.mercadoria = v.mercadoria /\ Admite(forn_sel, "Todos", m.nome_fornecedor)

\* the qualifying sales of one customer
QualificadasDe(cli, forn_sel, vend_sel) ==
    { v \in vendas : v.cliente = cli /\ VendaQualificada(v, forn_sel, vend_sel) }

\* the rows of a data frame
Linhas(df) == { df[i] : i \in DOMAIN df }

\* the customers of a data frame
ClientesDe(df) == { r.cliente : r \in Linhas(df) }

\* the ledger holds regular sales only (no row that C1's missing test of tipo lets in)
SoVendas == \A v \in vendas : v.tipo = "V"

\* the thresholds the threshold properties range over
Limiares == 0..MaxMeses

-----------------------------------------------------------------------------
(* C1 *)

\* C1: every customer of the inactivity report has at least one regular sale
\* (tipo 'V'); a customer whose only transactions are returns has no row.
C1_SoVendasRegulares ==
    gerado => \A r \in Linhas(df_sem_compra) :
                 \E v \in vendas : v.cliente = r.cliente /\ v.tipo = "V"

-----------------------------------------------------------------------------
(* C2 *)

\* C2: the generated report holds exactly one record per customer (of the selected
\* cities) that has a qualifying sale and none for a customer with no qualifying
\* sale; the record's date is the maximum issue date of the customer's qualifying
\* sales and its salesperson code is the one of a qualifying sale of that date.
C2_UltimaCompraPorCliente ==
    gerado =>
        /\ \A r \in Linhas(df_sem_compra) :
              QualificadasDe(r.cliente, fornecedores_sel, CodSel) # {}
        /\ \A c \in { x \in clientes : Admite(cidades_sel, "Todas", x.cidade) } :
              LET q == QualificadasDe(c.cliente, fornecedores_sel, CodSel)
                  rs == { i \in DOMAIN df_sem_compra : df_sem_compra[i].cliente = c.cliente }
              IN  q # {} =>
                    /\ Cardinality(rs) = 1
                    /\ \A i \in rs :
                          LET r == df_sem_compra[i]
                          IN  /\ \A v \in q : DataOrd(v.data_emissao)
                                                <= DataOrd(r.data_ultima_compra)
                              /\ \E v \in q : /\ v.data_emissao = r.data_ultima_compra
                                              /\ CastInt(v.vendedor) = r.ultimo_vendedor_cod

-----------------------------------------------------------------------------
(* C3 *)

\* the row of table clientes of a report row
ClienteDe(r) == CHOOSE c \in clientes : c.cliente = r.cliente

\* C3: the status label of every report row follows the first-match precedence:
\* suspension flag 'S' -> Suspenso; else code 'A28' -> Antecipado; else open limit
\* zero -> Suspenso; else Liberado.
C3_PrecedenciaSituacao ==
    gerado => \A r \in Linhas(df_sem_compra) :
        LET c == ClienteDe(r)
            suspenso == c.situacao = "S"
            antecipado == c.antecipado = "A28"
            semLimite == c.limite_aberto = 0
        IN  /\ suspenso => r.situacao = "Suspenso"
            /\ (~ suspenso /\ antecipado) => r.situacao = "Antecipado"
            /\ (~ suspenso /\ ~ antecipado /\ semLimite) => r.situacao = "Suspenso"
            /\ (~ suspenso /\ ~ antecipado /\ ~ semLimite) => r.situacao = "Liberado"

\* C3 witness: a report row of a customer with the flag 'S', the code 'A28' and a
\* zero limit, labelled Suspenso, and a row of a customer with 'A28' and a zero
\* limit labelled Antecipado
C3_Witness ==
    /\ gerado
    /\ \E r \in Linhas(df_sem_compra) :
          /\ ClienteDe(r).situacao = "S" /\ ClienteDe(r).antecipado = "A28"
          /\ ClienteDe(r).limite_aberto = 0 /\ r.situacao = "Suspenso"
    /\ \E r \in Linhas(df_sem_compra) :
          /\ ClienteDe(r).situacao # "S" /\ ClienteDe(r).antecipado = "A28"
          /\ ClienteDe(r).limite_aberto = 0 /\ r.situacao = "Antecipado"

-----------------------------------------------------------------------------
(* C4 *)

\* the rows the report may hold for a threshold, under the current selections
LinhasComLimiar(meses) ==
    UNION { LinhasRelatorio(uv1, meses, cidades_sel) :
            uv1 \in LinhasRn1(ultimas_vendas(fornecedores_sel, CodSel)) }

-----------------------------------------------------------------------------
(* C5 *)

\* the customers the report returns for the given arguments (the same for every
\* outcome of the row numbering and of the ordering)
ClientesRelatorio(meses, forn_sel, cid_sel, vend_sel) ==
    UNION { { r.cliente : r \in LinhasRelatorio(uv1, meses, cid_sel) } :
            uv1 \in LinhasRn1(ultimas_vendas(forn_sel, vend_sel)) }

\* C5 as stated: for every threshold and each dimension, the report with the
\* dimension set to the sentinel holds every customer of the report with the
\* dimension set to an explicit non-empty selection, the rest being equal.  (Stated
\* for ledgers of regular sales, so that no violation rests on a return being
\* taken for a purchase.)
C5_SupersetTodoLimiar ==
    (gerado /\ SoVendas) => \A meses \in Limiares :
        LET explicito == ClientesRelatorio(meses, fornecedores_sel, cidades_sel, CodSel)
        IN  /\ Explicita(fornecedores_sel, "Todos") =>
                  explicito \subseteq ClientesRelatorio(meses, {"Todos"}, cidades_sel, CodSel)
            /\ Explicita(cidades_sel, "Todas") =>
                  explicito \subseteq ClientesRelatorio(meses, fornecedores_sel, {"Todas"}, CodSel)
            /\ Explicita(CodSel, TODOS) =>
                  explicito \subseteq ClientesRelatorio(meses, fornecedores_sel, cidades_sel, {TODOS})

\* C5 amended: for the city dimension the sentinel's report holds every customer of
\* the explicit selection's report at every threshold; for the supplier and the
\* salesperson dimension it does so at threshold 0, and at a threshold m > 0 every
\* customer of the explicit selection's report is in the sentinel's report of
\* threshold 0.
C5_Superset ==
    /\ gerado =>
          /\ Explicita(fornecedores_sel, "Todos") =>
                ClientesDe(df_sem_compra)
                  \subseteq ClientesRelatorio(0, {"Todos"}, cidades_sel, CodSel)
          /\ Explicita(CodSel, TODOS) =>
                ClientesDe(df_sem_compra)
                  \subseteq ClientesRelatorio(0, fornecedores_sel, cidades_sel, {TODOS})
    /\ \A meses \in Limiares :
        LET explicito == ClientesRelatorio(meses, fornecedores_sel, cidades_sel, CodSel)
        IN  /\ Explicita(fornecedores_sel, "Todos") =>
                  explicito \subseteq ClientesRelatorio(0, {"Todos"}, cidades_sel, CodSel)
            /\ Explicita(cidades_sel, "Todas") =>
                  explicito \subseteq ClientesRelatorio(meses, fornecedores_sel, {"Todas"}, CodSel)
            /\ Explicita(CodSel, TODOS) =>
                  explicito \subseteq ClientesRelatorio(0, fornecedores_sel, cidades_sel, {TODOS})

\* C5 witness: a report generated under an explicit supplier whose customer is in
\* the sentinel's report at threshold 0 but, at some threshold, only in the explicit
\* selection's report
C5_Witness ==
    /\ gerado
    /\ Explicita(fornecedores_sel, "Todos")
    /\ \E cli \in ClientesDe(df_sem_compra) :
          /\ cli \in ClientesRelatorio(0, {"Todos"}, cidades_sel, CodSel)
          /\ \E meses \in Limiares :
                /\ cli \in ClientesRelatorio(meses, fornecedores_sel, cidades_sel, CodSel)
                /\ cli \notin ClientesRelatorio(meses, {"Todos"}, cidades_sel, CodSel)

-----------------------------------------------------------------------------
(* C6 *)

\* the selected display name has a code in the salesperson directory
TemCodigo(nome) == \E p \in vendedores_dict : p[2] = nome

-----------------------------------------------------------------------------
(* C7 *)

\* the explicit selections of a dimension the property ranges over
Explicitas(valores) == SUBSET valores \ {{}}

\* C7: in both functions and for each dimension, the empty selection and a selection
\* holding the sentinel together with explicit values give exactly the result of the
\* sentinel alone.
C7_VazioComoSentinela ==
    LET m == meses_sem_compra
        f == fornecedores_sel
        c == cidades_sel
        v == CodSel
        rel(ff, cc, vv) == get_clientes_sem_compra(m, ff, cc, vv)
        evo(ff, cc, vv) == get_evolucao_clientes(ff, cc, vv)
        relF == rel({"Todos"}, c, v)
        relC == rel(f, {"Todas"}, v)
        relV == rel(f, c, {TODOS})
        evoF == evo({"Todos"}, c, v)
        evoC == evo(f, {"Todas"}, v)
        evoV == evo(f, c, {TODOS})
    IN  /\ rel({}, c, v) = relF
        /\ rel(f, {}, v) = relC
        /\ rel(f, c, {}) = relV
        /\ evo({}, c, v) = evoF
        /\ evo(f, {}, v) = evoC
        /\ evo(f, c, {}) = evoV
        /\ \A x \in Explicitas({"FORN_A", "FORN_B"}) :
              /\ rel(x \cup {"Todos"}, c, v) = relF
              /\ evo(x \cup {"Todos"}, c, v) = evoF
        /\ \A x \in Explicitas({"UBERABA", "ARAXA"}) :
              /\ rel(f, x \cup {"Todas"}, v) = relC
              /\ evo(f, x \cup {"Todas"}, v) = evoC
        /\ \A x \in Explicitas({TXT_1, TXT_13}) :
              /\ rel(f, c, x \cup {TODOS}) = relV
              /\ evo(f, c, x \cup {TODOS}) = evoV
        /\ (gerado /\ f = {}) => (df_sem_compra \in relF /\ df_evolucao = evoF)
        /\ (gerado /\ c = {}) => (df_sem_compra \in relC /\ df_evolucao = evoC)
        /\ (gerado /\ v = {}) => (df_sem_compra \in relV /\ df_evolucao = evoV)

\* C7 witness: reports generated with the city multiselect emptied that hold the
\* customers of two cities, where one explicit city would have left one out
C7_Witness ==
    /\ gerado
    /\ cidades_sel = {}
    /\ { r.cidade : r \in Linhas(df_sem_compra) } = {"UBERABA", "ARAXA"}
    /\ Len(df_evolucao) > 0
    /\ ClientesRelatorio(meses_sem_compra, fornecedores_sel, {"ARAXA"}, CodSel)
         # ClientesDe(df_sem_compra)

-----------------------------------------------------------------------------
(* C8 *)

\* C8: under an explicit non-empty salesperson selection S every report row has its
\* last-salesperson code in S, and a customer whose qualifying sales were all made
\* by salespeople outside S has no row.
C8_VendedorExplicito ==
    (gerado /\ Explicita(CodSel, TODOS)) =>
        /\ \A r \in Linhas(df_sem_compra) :
              \E cod \in CodSel : CastInt(cod) = r.ultimo_vendedor_cod
        /\ \A cli \in { v.cliente : v \in vendas } :
              LET q == QualificadasDe(cli, fornecedores_sel, {TODOS})
              IN  (q # {} /\ \A v \in q : v.vendedor \notin CodSel)
                  => cli \notin ClientesDe(df_sem_compra)

-----------------------------------------------------------------------------
(* C9 and C10 *)

\* the months of the evolution window that the snapshots can hold, with the text
\* the output gives each
MesesRef ==
    { <<Data(2024, 1, 1), <<"2", "0", "2", "4", "-", "0", "1", "-", "0", "1">> >>,
      <<Data(2024, 3, 1), <<"2", "0", "2", "4", "-", "0", "3", "-", "0", "1">> >>,
      <<Data(2024, 10, 1), <<"2", "0", "2", "4", "-", "1", "0", "-", "0", "1">> >>,
      <<Data(2025, 2, 1), <<"2", "0", "2", "5", "-", "0", "2", "-", "0", "1">> >> }

\* the value of each monetary text of the snapshots, in hundredths
ValorRef(valor) ==
    CASE valor = RS_50 -> 5000 [] valor = RS_100 -> 10000 [] valor = RS_1000 -> 100000

\* a transaction that passes the filters of the evolution: from January of the
\* previous year on, not of the house account, of a merchandise with an admitted
\* supplier, of a registered customer of an admitted city, of an admitted salesperson
PassaEvolucao(v) ==
    /\ v.data_emissao.ano >= CURRENT_DATE.ano - 1
    /\ v.vendedor # TXT_2
    /\ Admite(CodSel, TODOS, v.vendedor)
    /\ \E m \in mercadorias :
          m.mercadoria = v.mercadoria /\ Admite(fornecedores_sel, "Todos", m.nome_fornecedor)
    /\ \E c \in clientes :
          c.cliente = v.cliente /\ Admite(cidades_sel, "Todas", c.cidade)

\* the passing transactions of a month
PassamNoMes(mes) ==
    { v \in vendas : /\ PassaEvolucao(v)
                     /\ v.data_emissao.ano = mes.ano
                     /\ v.data_emissao.mes = mes.mes }

\* sum of the values of a set of transactions
RECURSIVE SomaRef(_)
SomaRef(linhas) ==
    IF linhas = {} THEN 0
    ELSE LET v == CHOOSE x \in linhas : TRUE
         IN  ValorRef(v.valor_liq) + SomaRef(linhas \ {v})

\* net value of a customer in a month: sales minus returns
LiquidoRef(cli, mes) ==
    SomaRef({ v \in PassamNoMes(mes) : v.cliente = cli /\ v.tipo = "V" })
    - SomaRef({ v \in PassamNoMes(mes) : v.cliente = cli /\ v.tipo = "D" })

\* C9: for every month of the evolution, qtd_clientes_com_venda is the number of
\* distinct customers whose net value of the month (sales minus returns over the
\* passing transactions) is strictly positive, qtd_clientes_total is the number of
\* distinct customers with a passing transaction, and the first never exceeds the
\* second.
C9_ClientesAtendidos ==
    gerado => \A r \in Linhas(df_evolucao) :
        \E p \in MesesRef :
            /\ p[2] = r.mes_ref
            /\ r.qtd_clientes_com_venda =
                  Cardinality({ cli \in { v.cliente : v \in PassamNoMes(p[1]) } :
                                  LiquidoRef(cli, p[1]) > 0 })
            /\ r.qtd_clientes_total = Cardinality({ v.cliente : v \in PassamNoMes(p[1]) })
            /\ r.qtd_clientes_com_venda <= r.qtd_clientes_total

\* C9 witness: a month in which the one customer has a sale and a return of the same
\* value, counted in the total and not as attended
C9_Witness ==
    /\ gerado
    /\ \E r \in Linhas(df_evolucao), p \in MesesRef :
          /\ p[2] = r.mes_ref
          /\ \E cli \in {1, 2} :
                /\ \E v \in PassamNoMes(p[1]) : v.cliente = cli /\ v.tipo = "V"
                /\ \E v \in PassamNoMes(p[1]) : v.cliente = cli /\ v.tipo = "D"
                /\ LiquidoRef(cli, p[1]) = 0
          /\ r.qtd_clientes_total = 1
          /\ r.qtd_clientes_com_venda = 0

\* C10: the evolution has exactly one entry for each month, from January of the
\* previous year on, that has a passing transaction (even when no customer is
\* attended), none for the other months, and the entries ascend strictly by month.
C10_UmaLinhaPorMes ==
    gerado =>
        LET presentes == { p \in MesesRef : PassamNoMes(p[1]) # {} }
        IN  /\ { r.mes_ref : r \in Linhas(df_evolucao) } = { p[2] : p \in presentes }
            /\ Len(df_evolucao) = Cardinality(presentes)
            /\ \A i, j \in DOMAIN df_evolucao :
                  i < j => \E p, q \in MesesRef :
                              /\ p[2] = df_evolucao[i].mes_ref
                              /\ q[2] = df_evolucao[j].mes_ref
                              /\ DataOrd(p[1]) < DataOrd(q[1])

\* C10 witness: an evolution of two entries, March before October of the previous
\* year, the second with no attended customer, while the ledger is not empty
C10_Witness ==
    /\ gerado
    /\ Len(df_evolucao) = 2
    /\ df_evolucao[1].mes_ref = <<"2", "0", "2", "4", "-", "0", "3", "-", "0", "1">>
    /\ df_evolucao[2].mes_ref = <<"2", "0", "2", "4", "-", "1", "0", "-", "0", "1">>
    /\ df_evolucao[2].qtd_clientes_com_venda = 0

-----------------------------------------------------------------------------
(* C11 *)

\* sum of the values of f over the keys S, for the properties
RECURSIVE SomaValores(_, _)
SomaValores(f, S) ==
    IF S = {} THEN 0
    ELSE LET x == CHOOSE y \in S : TRUE
         IN  f[x] + SomaValores(f, S \ {x})

\* the positions of the rows of a pivot that are not the total row
NaoTotais(p, rotulo_total) == { i \in DOMAIN p : p[i].chave # rotulo_total }

\* a pivot adds up: each row's cells sum to its Total, there is one total row, its
\* Total is the sum of the other rows' Total, and that is n
PivotSoma(p, rotulo_total, n) ==
    /\ \A i \in DOMAIN p : SomaValores(p[i].celulas, DOMAIN p[i].celulas) = p[i].Total
    /\ Cardinality(DOMAIN p \ NaoTotais(p, rotulo_total)) = 1
    /\ \A t \in DOMAIN p \ NaoTotais(p, rotulo_total) :
          /\ p[t].Total = SomaValores([ i \in DOMAIN p |-> p[i].Total ],
                                      NaoTotais(p, rotulo_total))
          /\ p[t].Total = n

\* C11: for a non-empty report, in each of the three pivots the cells of every row
\* sum to the row's Total, the Total of the total row is the sum of the other rows'
\* Total, and it is the number of report rows whose keys are not null (all rows for
\* bucket x status, the rows with a salesperson name, the rows with a city).
C11_PivotsSomam ==
    (gerado /\ df_sem_compra # <<>>) =>
        /\ PivotSoma(pivot_situacao, <<"Total Geral">>, Len(df_sem_compra))
        /\ PivotSoma(pivot_vendedor, <<"Total Geral">>,
              Cardinality({ i \in DOMAIN df_sem_compra :
                              df_sem_compra[i].nome_vendedor # NULL }))
        /\ PivotSoma(pivot_cidade, "Total Geral",
              Cardinality({ i \in DOMAIN df_sem_compra :
                              df_sem_compra[i].cidade # NULL }))

\* C11 witness: a report of two customers, one with no salesperson name and no city,
\* whose salesperson and city pivots total 1 while the status pivot totals 2
C11_Witness ==
    /\ gerado
    /\ Len(df_sem_compra) = 2
    /\ \E i \in DOMAIN df_sem_compra :
          df_sem_compra[i].nome_vendedor = NULL /\ df_sem_compra[i].cidade = NULL
    /\ pivot_situacao[Len(pivot_situacao)].Total = 2
    /\ Len(pivot_vendedor) = 2 /\ pivot_vendedor[2].Total = 1
    /\ Len(pivot_cidade) = 2 /\ pivot_cidade[2].Total = 1

-----------------------------------------------------------------------------
(* C12 *)

\* position of a row key in the order of the pivot's index before the sort by Total
PosicaoVendedor(k) == Colacao(k[1]) * 10 + Colacao(k[2])
PosicaoCidade(k) == Colacao(k)

\* the rows other than the total row descend by Total and the total row is last
PivotDescendente(p, rotulo_total) ==
    /\ Len(p) >= 1
    /\ p[Len(p)].chave = rotulo_total
    /\ \A i \in 1..(Len(p) - 1) : p[i].chave # rotulo_total
    /\ \A i \in 1..(Len(p) - 2) : p[i].Total >= p[i + 1].Total

\* rows of equal Total are in the order of their keys
EmpatesNaOrdemDasChaves(p, Posicao(_)) ==
    \A i, j \in 1..(Len(p) - 1) :
        (i < j /\ p[i].Total = p[j].Total) => Posicao(p[i].chave) < Posicao(p[j].chave)

\* C12: in the salesperson and the city pivot of a non-empty report the rows other
\* than the total row descend by Total, rows of equal Total keep the order of their
\* keys, and the row 'Total Geral' is the last one.  (Stated for ledgers of regular
\* sales, so that no violation rests on a return being taken for a purchase.)
C12_OrdemDosPivots ==
    (gerado /\ SoVendas /\ df_sem_compra # <<>>) =>
        /\ PivotDescendente(pivot_vendedor, <<"Total Geral">>)
        /\ PivotDescendente(pivot_cidade, "Total Geral")
        /\ EmpatesNaOrdemDasChaves(pivot_vendedor, PosicaoVendedor)
        /\ EmpatesNaOrdemDasChaves(pivot_cidade, PosicaoCidade)

-----------------------------------------------------------------------------
(* C15 *)

\* the transactions that are not of the house account
ForaDaCasa == { v \in vendas : v.vendedor # TXT_2 }

\* the transactions of a month that are not of the house account and are inside the
\* evolution's window and admitted by the three selections
ForaDaCasaNoMes(mes) ==
    { v \in ForaDaCasa :
        /\ v.data_emissao.ano = mes.ano /\ v.data_emissao.mes = mes.mes
        /\ v.data_emissao.ano >= CURRENT_DATE.ano - 1
        /\ Admite(CodSel, TODOS, v.vendedor)
        /\ \E m \in mercadorias :
              m.mercadoria = v.mercadoria
              /\ Admite(fornecedores_sel, "Todos", m.nome_fornecedor)
        /\ \E c \in clientes :
              c.cliente = v.cliente /\ Admite(cidades_sel, "Todas", c.cidade) }

\* selections of salesperson codes that name the house account
ComCasa == { {TXT_2}, {TXT_1, TXT_2} }

\* C15: no row of the inactivity report has the last-salesperson code 2, and the
\* date and code of every row are those of a transaction that is not of the house
\* account; every month of the evolution has a transaction that is not of the house
\* account and counts no more customers than those transactions have; and an
\* explicit selection naming the house account brings none of its sales in.
C15_ContaDaCasa ==
    /\ gerado =>
          /\ \A r \in Linhas(df_sem_compra) :
                /\ r.ultimo_vendedor_cod # 2
                /\ \E v \in ForaDaCasa :
                      /\ v.cliente = r.cliente
                      /\ v.data_emissao = r.data_ultima_compra
                      /\ CastInt(v.vendedor) = r.ultimo_vendedor_cod
          /\ \A r \in Linhas(df_evolucao) :
                \E p \in MesesRef :
                    /\ p[2] = r.mes_ref
                    /\ ForaDaCasaNoMes(p[1]) # {}
                    /\ r.qtd_clientes_total
                         = Cardinality({ v.cliente : v \in ForaDaCasaNoMes(p[1]) })
                    /\ r.qtd_clientes_com_venda <= r.qtd_clientes_total
    /\ \A vend_sel \in ComCasa :
          /\ \A df \in get_clientes_sem_compra(meses_sem_compra, fornecedores_sel,
                                                cidades_sel, vend_sel) :
                \A r \in Linhas(df) : r.ultimo_vendedor_cod # 2
          /\ get_evolucao_clientes(fornecedores_sel, cidades_sel, {TXT_2}) = <<>>

\* C15 witness: the customer's latest transaction is a sale of the house account in
\* the current month; the report dates the customer by the earlier sale of another
\* salesperson and the evolution has no entry for the current month
C15_Witness ==
    /\ gerado
    /\ \E h \in vendas, r \in Linhas(df_sem_compra) :
          /\ h.vendedor = TXT_2 /\ h.tipo = "V"
          /\ h.cliente = r.cliente
          /\ DataOrd(h.data_emissao) > DataOrd(r.data_ultima_compra)
          /\ h.data_emissao.ano = CURRENT_DATE.ano /\ h.data_emissao.mes = CURRENT_DATE.mes
          /\ r.meses_sem_compra > 0
    /\ Len(df_evolucao) = 1
    /\ df_evolucao[1].mes_ref # <<"2", "0", "2", "5", "-", "0", "2", "-", "0", "1">>

-----------------------------------------------------------------------------
(* C13 *)

\* C13: two evaluations of the report with the same selections over the same
\* ledger, neither of which failed, return the same data frame: a report shown
\* after another one under the same filters is equal to it (the last-salesperson
\* code of a customer with several sales on the latest date included).
C13_MesmoResultado ==
    [][ ( /\ gerado /\ gerado'
          /\ selecoes' = selecoes
          /\ tabelas' = tabelas
          /\ "erro_sem_compra" \notin saidas
          /\ "erro_sem_compra" \notin saidas' )
        => df_sem_compra' = df_sem_compra ]_vars

-----------------------------------------------------------------------------
(* C14 *)

\* the outputs of a report
SaidasDoRelatorio == {"graficos_evolucao", "grafico_distribuicao", "pivots", "tabela"}

\* the query of a report function ran in the last run and failed
FalhouSemCompra == "get_clientes_sem_compra" \in consultas /\ "erro_sem_compra" \in saidas
FalhouEvolucao == "get_evolucao_clientes" \in consultas /\ "erro_evolucao" \in saidas

\* C14: when the inactivity query or the evolution query fails in a request, the
\* page shows none of the report's outputs, and what it shows is not what it shows
\* for a valid empty report (the message 'Nenhum cliente encontrado' alone).
C14_FalhaFatal ==
    (gerado /\ (FalhouSemCompra \/ FalhouEvolucao)) =>
        /\ saidas \cap SaidasDoRelatorio = {}
        /\ saidas # {"info_nenhum"}

-----------------------------------------------------------------------------
(* C16 *)

\* a step in which the script ran: the stores keep their entries as they are and
\* the store of get_vendedores holds one (a step of the clock ages every entry)
Execucao ==
    /\ cache_vendedores \subseteq cache_vendedores'
    /\ cache_sem_compra \subseteq cache_sem_compra'
    /\ cache_evolucao \subseteq cache_evolucao'
    /\ cache_vendedores' # {}

\* the salesperson codes the report functions were called with in that run
CodDaExecucao ==
    CodigosCom(UNION { e.valor : e \in cache_vendedores' }, vendedores_sel_report')

\* the arguments the two report functions were called with in that run
ChaveSemCompra == <<meses_sem_compra, fornecedores_sel', cidades_sel', CodDaExecucao>>
ChaveEvolucao == <<fornecedores_sel', cidades_sel', CodDaExecucao>>

\* a call through a store in a run: with an entry of the arguments in the store the
\* call returns the entry's value without a query and leaves the store as it is;
\* with none the query runs and what the function returns is stored, its failure
\* included
ChamadaPeloCache(antes, depois, chave, nome, valor, erro) ==
    LET guardadas == { e \in antes : e.chave = chave }
    IN  /\ guardadas # {} =>
              /\ nome \notin consultas'
              /\ depois = antes
              /\ \A e \in guardadas : e.valor = valor /\ e.erro = erro
        /\ guardadas = {} =>
              /\ nome \in consultas'
              /\ depois = antes \cup { [chave |-> chave, valor |-> valor,
                                        erro |-> erro, idade |-> 0] }

\* a step of the clock keeps (Passo seconds older) exactly the entries that stay
\* younger than the ttl
PassoDoRelogio(antes, depois, ttl) ==
    /\ \A e \in antes :
          (e.idade + Passo < ttl) <=> ([e EXCEPT !.idade = @ + Passo] \in depois)
    /\ \A x \in depois : \E e \in antes : x = [e EXCEPT !.idade = @ + Passo]

\* C16: what a function returns when its query fails (the empty data frame, the
\* empty dict) is stored like a result: while the entry is younger than the ttl
\* (600 s for the reports, 3600 s for get_vendedores) a call with the same arguments
\* returns it without a query; the query runs again only when the store has no entry
\* of the arguments (it expired, or the arguments are others).
C16_FalhaGuardada ==
    [][ /\ Execucao =>
              /\ ChamadaPeloCache(cache_vendedores, cache_vendedores', <<>>,
                    "get_vendedores", UNION { e.valor : e \in cache_vendedores' },
                    "erro_vendedores" \in saidas')
              /\ gerado' =>
                    /\ ChamadaPeloCache(cache_sem_compra, cache_sem_compra',
                          ChaveSemCompra, "get_clientes_sem_compra",
                          df_sem_compra', "erro_sem_compra" \in saidas')
                    /\ ChamadaPeloCache(cache_evolucao, cache_evolucao',
                          ChaveEvolucao, "get_evolucao_clientes",
                          df_evolucao', "erro_evolucao" \in saidas')
              /\ ~ gerado' => /\ cache_sem_compra' = cache_sem_compra
                              /\ cache_evolucao' = cache_evolucao
        /\ ~ Execucao =>
              /\ PassoDoRelogio(cache_vendedores, cache_vendedores', TTL_LISTAS)
              /\ PassoDoRelogio(cache_sem_compra, cache_sem_compra', TTL_RELATORIOS)
              /\ PassoDoRelogio(cache_evolucao, cache_evolucao', TTL_RELATORIOS)
      ]_vars

\* C16 witness: a report request served from the stores after time passed: the
\* stored failure of the inactivity query (the error shown again, no query) while
\* the ledger has customers, and the stored failure of get_vendedores older than
\* the ttl of the reports
C16_Witness ==
    /\ gerado
    /\ vendas # {}
    /\ "get_clientes_sem_compra" \notin consultas
    /\ "erro_sem_compra" \in saidas
    /\ df_sem_compra = <<>>
    /\ \E e \in cache_sem_compra : e.erro /\ e.idade > 0 /\ e.idade < TTL_RELATORIOS
    /\ "get_vendedores" \notin consultas
    /\ "erro_vendedores" \in saidas
    /\ \E e \in cache_vendedores : e.erro /\ e.idade >= TTL_RELATORIOS

====
